---- MODULE Spec2Model ----
(***************************************************************************)
(* Model of the Badi calendar event derivation of app/main.py:             *)
(* calculate_twin_holy_days, get_bahai_events_for_gregorian_year and       *)
(* get_bahai_months, together with the calendar-math collaborator they     *)
(* call (badidatetime.BahaiCalendar) and the date arithmetic they rely on. *)
(***************************************************************************)
EXTENDS Integers, Sequences, FiniteSets, TLC

(***************************************************************************)
(* Bounds of the model.                                                    *)
(***************************************************************************)
\* Gregorian years requested below the first / above the last tabulated year
YearsBefore == 20
YearsAfter == 20
\* largest number of collaborator inputs that fail during one request
MaxFailures == 1

(***************************************************************************)
(* datetime.date arithmetic: ordinals, timedelta, isoformat, fromisoformat *)
(***************************************************************************)
IsLeap(y) == (y % 4 = 0) /\ ((y % 100 # 0) \/ (y % 400 = 0))

DaysInMonth(y, m) ==
    IF m = 2 THEN (IF IsLeap(y) THEN 29 ELSE 28)
    ELSE IF m \in {4, 6, 9, 11} THEN 30 ELSE 31

DaysBeforeMonthTable == <<0, 31, 59, 90, 120, 151, 181, 212, 243, 273, 304, 334>>

DaysBeforeMonth(y, m) ==
    DaysBeforeMonthTable[m] + (IF m > 2 /\ IsLeap(y) THEN 1 ELSE 0)

DaysBeforeYear(y) ==
    LET p == y - 1 IN p * 365 + (p \div 4) - (p \div 100) + (p \div 400)

\* date(y, m, d).toordinal()
ToOrdinal(dt) == DaysBeforeYear(dt[1]) + DaysBeforeMonth(dt[1], dt[2]) + dt[3]

\* date.fromordinal(n): the last step, the month and the day within year yr
\* from the zero-based day n of the year
MonthAndDay(yr, leap, n, mon0) ==
    LET pre0 == DaysBeforeMonthTable[mon0] + (IF mon0 > 2 /\ leap THEN 1 ELSE 0)
    IN  IF pre0 > n
        THEN <<yr, mon0 - 1,
               n - (pre0 - (IF mon0 - 1 = 2 /\ leap THEN 29
                            ELSE IF mon0 - 1 = 2 THEN 28
                            ELSE IF (mon0 - 1) \in {4, 6, 9, 11} THEN 30 ELSE 31)) + 1>>
        ELSE <<yr, mon0, n - pre0 + 1>>

\* the 400-, 100-, 4- and 1-year cycles counted, and the day n left over
YearCycles(n400, n100, n4, n1, n) ==
    IF n1 = 4 \/ n100 = 4
    THEN <<n400 * 400 + n100 * 100 + n4 * 4 + n1, 12, 31>>
    ELSE MonthAndDay(n400 * 400 + 1 + n100 * 100 + n4 * 4 + n1,
                     (n1 = 3) /\ ((n4 # 24) \/ (n100 = 3)),
                     n, (n + 50) \div 32)

SplitCycle4(n400, n100, n4, r4) == YearCycles(n400, n100, n4, r4 \div 365, r4 % 365)
SplitCycle100(n400, n100, r100) == SplitCycle4(n400, n100, r100 \div 1461, r100 % 1461)
SplitCycle400(n400, r400) == SplitCycle100(n400, r400 \div 36524, r400 % 36524)

\* date.fromordinal(n)
FromOrdinal(ord) == SplitCycle400((ord - 1) \div 146097, (ord - 1) % 146097)

\* date + timedelta(days=k)
AddDays(dt, k) == FromOrdinal(ToOrdinal(dt) + k)

\* date1 - date2, in days
DaysBetween(later, earlier) == ToOrdinal(later) - ToOrdinal(earlier)

\* date.replace(year=y)
ReplaceYear(dt, y) == <<y, dt[2], dt[3]>>

\* date1 <= date2 and date1 < date2 on date objects
DateLE(a, b) == ToOrdinal(a) <= ToOrdinal(b)
DateLT(a, b) == ToOrdinal(a) < ToOrdinal(b)

\* The character "-" sorts below every digit; characters are modelled by
\* their rank, digits keeping their value.
Dash == -1

\* date.isoformat() / strftime("%Y-%m-%d"): the ten characters YYYY-MM-DD
IsoFormat(dt) ==
    << dt[1] \div 1000, (dt[1] \div 100) % 10, (dt[1] \div 10) % 10, dt[1] % 10,
       Dash, dt[2] \div 10, dt[2] % 10,
       Dash, dt[3] \div 10, dt[3] % 10 >>

\* date.fromisoformat(s)
FromIsoFormat(s) ==
    << s[1] * 1000 + s[2] * 100 + s[3] * 10 + s[4],
       s[6] * 10 + s[7],
       s[9] * 10 + s[10] >>

\* Python's ordering of two sequences (strings, tuples of characters): a < b
RECURSIVE LexLess(_, _)
LexLess(a, b) ==
    IF b = <<>> THEN FALSE
    ELSE IF a = <<>> THEN TRUE
    ELSE IF Head(a) # Head(b) THEN Head(a) < Head(b)
    ELSE LexLess(Tail(a), Tail(b))

(***************************************************************************)
(* The curated table of official Twin Holy Days dates, keyed by Gregorian  *)
(* year: (Birth of the Bab, Birth of Baha'u'llah) as ISO date strings.     *)
(***************************************************************************)
TWIN_HOLY_DAYS ==
    2015 :> <<IsoFormat(<<2015, 10, 29>>), IsoFormat(<<2015, 10, 30>>)>> @@
    2016 :> <<IsoFormat(<<2016, 10, 17>>), IsoFormat(<<2016, 10, 18>>)>> @@
    2017 :> <<IsoFormat(<<2017, 11, 6>>), IsoFormat(<<2017, 11, 7>>)>> @@
    2018 :> <<IsoFormat(<<2018, 10, 26>>), IsoFormat(<<2018, 10, 27>>)>> @@
    2019 :> <<IsoFormat(<<2019, 10, 15>>), IsoFormat(<<2019, 10, 16>>)>> @@
    2020 :> <<IsoFormat(<<2020, 11, 2>>), IsoFormat(<<2020, 11, 3>>)>> @@
    2021 :> <<IsoFormat(<<2021, 10, 22>>), IsoFormat(<<2021, 10, 23>>)>> @@
    2022 :> <<IsoFormat(<<2022, 10, 11>>), IsoFormat(<<2022, 10, 12>>)>> @@
    2023 :> <<IsoFormat(<<2023, 10, 30>>), IsoFormat(<<2023, 10, 31>>)>> @@
    2024 :> <<IsoFormat(<<2024, 10, 18>>), IsoFormat(<<2024, 10, 19>>)>> @@
    2025 :> <<IsoFormat(<<2025, 10, 22>>), IsoFormat(<<2025, 10, 23>>)>> @@
    2026 :> <<IsoFormat(<<2026, 11, 10>>), IsoFormat(<<2026, 11, 11>>)>> @@
    2027 :> <<IsoFormat(<<2027, 10, 30>>), IsoFormat(<<2027, 10, 31>>)>> @@
    2028 :> <<IsoFormat(<<2028, 10, 18>>), IsoFormat(<<2028, 10, 19>>)>> @@
    2029 :> <<IsoFormat(<<2029, 11, 6>>), IsoFormat(<<2029, 11, 7>>)>> @@
    2030 :> <<IsoFormat(<<2030, 10, 26>>), IsoFormat(<<2030, 10, 27>>)>> @@
    2031 :> <<IsoFormat(<<2031, 10, 15>>), IsoFormat(<<2031, 10, 16>>)>> @@
    2032 :> <<IsoFormat(<<2032, 11, 2>>), IsoFormat(<<2032, 11, 3>>)>> @@
    2033 :> <<IsoFormat(<<2033, 10, 22>>), IsoFormat(<<2033, 10, 23>>)>> @@
    2034 :> <<IsoFormat(<<2034, 10, 11>>), IsoFormat(<<2034, 10, 12>>)>> @@
    2035 :> <<IsoFormat(<<2035, 10, 30>>), IsoFormat(<<2035, 10, 31>>)>> @@
    2036 :> <<IsoFormat(<<2036, 10, 18>>), IsoFormat(<<2036, 10, 19>>)>> @@
    2037 :> <<IsoFormat(<<2037, 11, 6>>), IsoFormat(<<2037, 11, 7>>)>> @@
    2038 :> <<IsoFormat(<<2038, 10, 26>>), IsoFormat(<<2038, 10, 27>>)>> @@
    2039 :> <<IsoFormat(<<2039, 10, 15>>), IsoFormat(<<2039, 10, 16>>)>> @@
    2040 :> <<IsoFormat(<<2040, 11, 2>>), IsoFormat(<<2040, 11, 3>>)>> @@
    2041 :> <<IsoFormat(<<2041, 10, 22>>), IsoFormat(<<2041, 10, 23>>)>> @@
    2042 :> <<IsoFormat(<<2042, 10, 11>>), IsoFormat(<<2042, 10, 12>>)>> @@
    2043 :> <<IsoFormat(<<2043, 10, 30>>), IsoFormat(<<2043, 10, 31>>)>> @@
    2044 :> <<IsoFormat(<<2044, 10, 18>>), IsoFormat(<<2044, 10, 19>>)>> @@
    2045 :> <<IsoFormat(<<2045, 11, 6>>), IsoFormat(<<2045, 11, 7>>)>> @@
    2046 :> <<IsoFormat(<<2046, 10, 26>>), IsoFormat(<<2046, 10, 27>>)>> @@
    2047 :> <<IsoFormat(<<2047, 10, 15>>), IsoFormat(<<2047, 10, 16>>)>> @@
    2048 :> <<IsoFormat(<<2048, 11, 2>>), IsoFormat(<<2048, 11, 3>>)>> @@
    2049 :> <<IsoFormat(<<2049, 10, 22>>), IsoFormat(<<2049, 10, 23>>)>> @@
    2050 :> <<IsoFormat(<<2050, 10, 11>>), IsoFormat(<<2050, 10, 12>>)>> @@
    2051 :> <<IsoFormat(<<2051, 10, 30>>), IsoFormat(<<2051, 10, 31>>)>> @@
    2052 :> <<IsoFormat(<<2052, 10, 18>>), IsoFormat(<<2052, 10, 19>>)>> @@
    2053 :> <<IsoFormat(<<2053, 11, 6>>), IsoFormat(<<2053, 11, 7>>)>> @@
    2054 :> <<IsoFormat(<<2054, 10, 26>>), IsoFormat(<<2054, 10, 27>>)>> @@
    2055 :> <<IsoFormat(<<2055, 10, 15>>), IsoFormat(<<2055, 10, 16>>)>> @@
    2056 :> <<IsoFormat(<<2056, 11, 2>>), IsoFormat(<<2056, 11, 3>>)>> @@
    2057 :> <<IsoFormat(<<2057, 10, 22>>), IsoFormat(<<2057, 10, 23>>)>> @@
    2058 :> <<IsoFormat(<<2058, 10, 11>>), IsoFormat(<<2058, 10, 12>>)>> @@
    2059 :> <<IsoFormat(<<2059, 10, 30>>), IsoFormat(<<2059, 10, 31>>)>> @@
    2060 :> <<IsoFormat(<<2060, 10, 18>>), IsoFormat(<<2060, 10, 19>>)>> @@
    2061 :> <<IsoFormat(<<2061, 11, 6>>), IsoFormat(<<2061, 11, 7>>)>> @@
    2062 :> <<IsoFormat(<<2062, 10, 26>>), IsoFormat(<<2062, 10, 27>>)>> @@
    2063 :> <<IsoFormat(<<2063, 10, 15>>), IsoFormat(<<2063, 10, 16>>)>> @@
    2064 :> <<IsoFormat(<<2064, 11, 2>>), IsoFormat(<<2064, 11, 3>>)>>

\* logger.warning(...) / logger.error(...): one record of the log
Warning(what) == [level |-> "warning", about |-> what]

\* the elements of a set of years in ascending order
Ascending(S) ==
    [i \in 1..Cardinality(S) |-> CHOOSE y \in S : Cardinality({z \in S : z < y}) = i - 1]

\* TWIN_HOLY_DAYS.keys(), in insertion order
TwinKeys == Ascending(DOMAIN TWIN_HOLY_DAYS)

Abs(x) == IF x < 0 THEN 0 - x ELSE x

\* min(keys, key=lambda y: abs(y - year)): the first key of least distance
RECURSIVE MinByDistance(_, _, _, _)
MinByDistance(keys, i, best, year) ==
    IF i > Len(keys) THEN best
    ELSE IF Abs(keys[i] - year) < Abs(best - year)
         THEN MinByDistance(keys, i + 1, keys[i], year)
         ELSE MinByDistance(keys, i + 1, best, year)

FirstMin(keys, year) == MinByDistance(keys, 2, keys[1], year)

ClosestYear(year) == FirstMin(TwinKeys, year)

\* the shift with the drift taken forwards: +11 days per year
EstimatedShift_Forward(year_diff) == (((year_diff % 19) * 11) % 365)

\* the shift without the 19-year reduction: -11 days for every year
EstimatedShift_NoCycle(year_diff) == ((year_diff * (0 - 11)) % 365)

\* estimated_shift = (remainder * -11) % 365, remainder = year_diff % 19
EstimatedShift(year_diff) == (((year_diff % 19) * (0 - 11)) % 365)

\* the three warnings of an estimation
EstimationLog ==
    <<Warning("No official Twin Holy Days dates"),
      Warning("Estimated Twin Holy Days"),
      Warning("These dates are ESTIMATES")>>

\* base dates moved to the requested year and shifted
ShiftedTwinHolyDays(year, base, estimated_shift) ==
    [dates |-> <<IsoFormat(AddDays(ReplaceYear(FromIsoFormat(base[1]), year), estimated_shift)),
                 IsoFormat(AddDays(ReplaceYear(FromIsoFormat(base[2]), year), estimated_shift))>>,
     log   |-> EstimationLog]

\* the estimation from the closest year of the table
EstimatedTwinHolyDays(year, closest_year) ==
    ShiftedTwinHolyDays(year, TWIN_HOLY_DAYS[closest_year], EstimatedShift(year - closest_year))

\* the resolver without the table lookup: every year is estimated
calculate_twin_holy_days_NoLookup(year) == EstimatedTwinHolyDays(year, ClosestYear(year))

\* calculate_twin_holy_days(year): the pair of ISO strings returned and the
\* warnings logged on the way
calculate_twin_holy_days(year) ==
    IF year \in DOMAIN TWIN_HOLY_DAYS
    THEN [dates |-> TWIN_HOLY_DAYS[year], log |-> <<>>]
    ELSE EstimatedTwinHolyDays(year, ClosestYear(year))

(***************************************************************************)
(* Static tables: the event-key mapping, the fixed-event list and the      *)
(* translated display names.                                               *)
(***************************************************************************)
EVENT_KEYS ==
    "Naw-Ruz" :> "nawruz" @@
    "First Day of Ridvan" :> "1Ridvan" @@
    "Ninth Day of Ridvan" :> "9Ridvan" @@
    "Twelfth Day of Ridvan" :> "12Ridvan" @@
    "Declaration of the Bab" :> "declarationBab" @@
    "Ascension of Baha'u'llah" :> "ascensionB" @@
    "Martyrdom of the Bab" :> "martyrdomBab" @@
    "Birth of the Bab" :> "birthBab" @@
    "Birth of Baha'u'llah" :> "birthB" @@
    "Day of the Covenant" :> "covenant" @@
    "Ascension of 'Abdu'l-Baha" :> "ascensionA" @@
    "Ayyam-i-Ha" :> "ayyamiha" @@
    "Fast" :> "fast"

\* bahai_events.BAHAI_EVENTS: the named holy days with their Badi month and day
BAHAI_EVENTS == <<
    [name |-> "Naw-Ruz",                   month |-> 1,  day |-> 1],
    [name |-> "First Day of Ridvan",       month |-> 2,  day |-> 13],
    [name |-> "Ninth Day of Ridvan",       month |-> 3,  day |-> 2],
    [name |-> "Twelfth Day of Ridvan",     month |-> 3,  day |-> 5],
    [name |-> "Declaration of the Bab",    month |-> 4,  day |-> 8],
    [name |-> "Ascension of Baha'u'llah",  month |-> 4,  day |-> 13],
    [name |-> "Martyrdom of the Bab",      month |-> 6,  day |-> 17],
    [name |-> "Birth of the Bab",          month |-> 12, day |-> 5],
    [name |-> "Birth of Baha'u'llah",      month |-> 12, day |-> 6],
    [name |-> "Day of the Covenant",       month |-> 14, day |-> 4],
    [name |-> "Ascension of 'Abdu'l-Baha", month |-> 14, day |-> 6] >>

\* translations[lang]['events']['names']: display name of each event key
TranslationNames ==
    "nawruz" :> "Naw-Ruz" @@
    "1Ridvan" :> "Primer dia de Ridvan" @@
    "9Ridvan" :> "Noveno dia de Ridvan" @@
    "12Ridvan" :> "Duodecimo dia de Ridvan" @@
    "declarationBab" :> "Declaracion del Bab" @@
    "ascensionB" :> "Ascension de Baha'u'llah" @@
    "martyrdomBab" :> "Martirio del Bab" @@
    "birthBab" :> "Nacimiento del Bab" @@
    "birthB" :> "Nacimiento de Baha'u'llah" @@
    "covenant" :> "Dia de la Alianza" @@
    "ascensionA" :> "Ascension de 'Abdu'l-Baha" @@
    "ayyamiha" :> "Ayyam-i-Ha" @@
    "1fast" :> "Primer dia del Ayuno" @@
    "19fast" :> "Ultimo dia del Ayuno"

\* translate_event(event_name, lang, is_first_fast, is_last_fast)['name']
translate_event(event_name, is_first_fast, is_last_fast) ==
    LET key == IF is_first_fast THEN "1fast"
               ELSE IF is_last_fast THEN "19fast"
               ELSE IF event_name \in DOMAIN EVENT_KEYS THEN EVENT_KEYS[event_name]
               ELSE event_name
    IN  IF key \in DOMAIN TranslationNames THEN TranslationNames[key] ELSE event_name

\* create_event_dict(...): the fields of an event the ordering and the
\* window depend on (desc and url are carried along unchanged)
create_event_dict(event_name, badi_month, badi_day, gregorian_date) ==
    [event          |-> event_name,
     badi_month     |-> badi_month,
     badi_day       |-> badi_day,
     gregorian_date |-> IsoFormat(gregorian_date)]

(***************************************************************************)
(* The calendar-math collaborator (badidatetime.BahaiCalendar).  A request *)
(* context c carries the requested year, the sunset dates of the two       *)
(* Naw-Ruz the collaborator computes (c.nr, March days of year and year+1) *)
(* and the set of collaborator inputs for which it raises (c.failing).     *)
(***************************************************************************)
G2BCall == [fn |-> "badi_date_from_gregorian_date", a |-> 3, b |-> 21]
NRCall(k) == [fn |-> "naw_ruz_g_date", a |-> k, b |-> 0]
B2GCall(m, d) == [fn |-> "gregorian_date_from_badi_date", a |-> m, b |-> d]

Fails(c, call) == call \in c.failing

\* bc.naw_ruz_g_date(badi_year + k, ...) for k = 0, 1: the sunset date
naw_ruz_g_date(c, k) == <<c.year + k, 3, c.nr[k + 1]>>

\* days in the Badi year of the request
BadiYearLength(c) == DaysBetween(naw_ruz_g_date(c, 1), naw_ruz_g_date(c, 0))

\* bc.gregorian_date_from_badi_date((badi_year, m, d), ...): the sunset date
gregorian_date_from_badi_date(c, m, d) ==
    LET offset == IF m = 0 THEN 18 * 19 + (d - 1)
                  ELSE IF m = 19 THEN BadiYearLength(c) - 19 + (d - 1)
                  ELSE (m - 1) * 19 + (d - 1)
    IN  AddDays(naw_ruz_g_date(c, 0), offset)

\* the correction applied twice: the sunset date plus two days
Corrected_Twice(gdate) == AddDays(gdate, 2)

\* "+ timedelta(days=1)": the sunset date to the civil date
Corrected(gdate) == AddDays(gdate, 1)

\* the window with its start excluded: start_date < d < end_date
InWindow_StartExcluded(d, start_date, end_date) ==
    DateLT(start_date, d) /\ DateLT(d, end_date)

\* the window without its end: start_date <= d
InWindow_Unbounded(d, start_date, end_date) == DateLE(start_date, d)

\* start_date <= d < end_date
InWindow(d, start_date, end_date) == DateLE(start_date, d) /\ DateLT(d, end_date)

(***************************************************************************)
(* get_bahai_events_for_gregorian_year.  Each step takes and returns the   *)
(* pair acc = [events, log] built so far.                                  *)
(***************************************************************************)
\* 1. the loop over BAHAI_EVENTS, from entry i on
RECURSIVE FixedEventsLoop(_, _, _, _, _)
FixedEventsLoop(c, start_date, end_date, i, acc) ==
    IF i > Len(BAHAI_EVENTS) THEN acc
    ELSE LET event == BAHAI_EVENTS[i]
         IN  IF event.name \in {"Birth of the Bab", "Birth of Baha'u'llah"}
             THEN FixedEventsLoop(c, start_date, end_date, i + 1, acc)
             ELSE IF Fails(c, B2GCall(event.month, event.day))
             THEN FixedEventsLoop(c, start_date, end_date, i + 1,
                      [acc EXCEPT !.log = Append(@, Warning(event.name))])
             ELSE LET event_date ==
                          Corrected(gregorian_date_from_badi_date(c, event.month, event.day))
                  IN  IF InWindow(event_date, start_date, end_date)
                      THEN FixedEventsLoop(c, start_date, end_date, i + 1,
                               [acc EXCEPT !.events = Append(@,
                                   create_event_dict(translate_event(event.name, FALSE, FALSE),
                                                     event.month, event.day, event_date))])
                      ELSE FixedEventsLoop(c, start_date, end_date, i + 1, acc)

\* 1b. the two filtered appends of the Twin Holy Days
AppendTwinHolyDays(bab_date, bahaullah_date, start_date, end_date, evs) ==
    (IF InWindow(bab_date, start_date, end_date)
     THEN evs \o <<create_event_dict(translate_event("Birth of the Bab", FALSE, FALSE),
                                      12, 5, bab_date)>>
     ELSE evs)
    \o
    (IF InWindow(bahaullah_date, start_date, end_date)
     THEN <<create_event_dict(translate_event("Birth of Baha'u'llah", FALSE, FALSE),
                              12, 6, bahaullah_date)>>
     ELSE <<>>)

\* 1b. the Twin Holy Days, once calculate_twin_holy_days has returned twin
TwinResolved(twin, start_date, end_date, acc) ==
    [events |-> AppendTwinHolyDays(FromIsoFormat(twin.dates[1]), FromIsoFormat(twin.dates[2]),
                                   start_date, end_date, acc.events),
     log    |-> acc.log \o twin.log]

\* 1b. the Twin Holy Days
TwinHolyDaysStep(c, start_date, end_date, acc) ==
    TwinResolved(calculate_twin_holy_days(c.year), start_date, end_date, acc)

\* for day in range(from, ayyam_days + 1): ...
RECURSIVE AyyamLoop(_, _, _, _, _, _)
AyyamLoop(ayyam_start_date, ayyam_days, start_date, end_date, day, events) ==
    IF day > ayyam_days THEN events
    ELSE LET ayyam_date == AddDays(ayyam_start_date, day - 1)
         IN  IF InWindow(ayyam_date, start_date, end_date)
             THEN AyyamLoop(ayyam_start_date, ayyam_days, start_date, end_date, day + 1,
                      Append(events,
                          create_event_dict(translate_event("Ayyam-i-Ha", FALSE, FALSE),
                                            0, day, ayyam_date)))
             ELSE AyyamLoop(ayyam_start_date, ayyam_days, start_date, end_date, day + 1, events)

\* the expansion running one day past the measured gap
AyyamStep_OneDayMore(c, start_date, end_date, acc) ==
    IF Fails(c, B2GCall(0, 1)) \/ Fails(c, B2GCall(19, 1))
    THEN [acc EXCEPT !.log = Append(@, Warning("Ayyam-i-Ha"))]
    ELSE LET ayyam_start_date   == Corrected(gregorian_date_from_badi_date(c, 0, 1))
             month19_start_date == Corrected(gregorian_date_from_badi_date(c, 19, 1))
             ayyam_days         == DaysBetween(month19_start_date, ayyam_start_date)
         IN  [acc EXCEPT !.events =
                  AyyamLoop(ayyam_start_date, ayyam_days + 1, start_date, end_date, 1, @)]

\* 2. Ayyam-i-Ha
AyyamStep(c, start_date, end_date, acc) ==
    IF Fails(c, B2GCall(0, 1)) \/ Fails(c, B2GCall(19, 1))
    THEN [acc EXCEPT !.log = Append(@, Warning("Ayyam-i-Ha"))]
    ELSE LET ayyam_start_date   == Corrected(gregorian_date_from_badi_date(c, 0, 1))
             month19_start_date == Corrected(gregorian_date_from_badi_date(c, 19, 1))
             ayyam_days         == DaysBetween(month19_start_date, ayyam_start_date)
         IN  [acc EXCEPT !.events =
                  AyyamLoop(ayyam_start_date, ayyam_days, start_date, end_date, 1, @)]

\* 3. the two Fasting boundaries, inside one try block
FastingStep(c, start_date, end_date, acc) ==
    IF Fails(c, B2GCall(19, 1))
    THEN [acc EXCEPT !.log = Append(@, Warning("fasting"))]
    ELSE LET fast_start_date == Corrected(gregorian_date_from_badi_date(c, 19, 1))
             withFirst ==
                 IF InWindow(fast_start_date, start_date, end_date)
                 THEN Append(acc.events,
                          create_event_dict(translate_event("Fast", TRUE, FALSE),
                                            19, 1, fast_start_date))
                 ELSE acc.events
         IN  IF Fails(c, B2GCall(19, 19))
             THEN [events |-> withFirst, log |-> Append(acc.log, Warning("fasting"))]
             ELSE LET fast_end_date == Corrected(gregorian_date_from_badi_date(c, 19, 19))
                  IN  IF InWindow(fast_end_date, start_date, end_date)
                      THEN [events |-> Append(withFirst,
                                create_event_dict(translate_event("Fast", FALSE, TRUE),
                                                  19, 19, fast_end_date)),
                            log |-> acc.log]
                      ELSE [events |-> withFirst, log |-> acc.log]

\* the sort key without the date: the tier alone
sort_key_TierOnly(event) ==
    IF event.event = translate_event("Naw-Ruz", FALSE, FALSE) THEN <<0, <<>>>>
    ELSE IF event.badi_month = 19 /\ event.badi_day = 19 THEN <<2, <<>>>>
    ELSE <<1, <<>>>>

\* 4. sort_key(event): (tier, ISO date string)
sort_key(event) ==
    LET nawruz_name == translate_event("Naw-Ruz", FALSE, FALSE)
    IN  IF event.event = nawruz_name THEN <<0, event.gregorian_date>>
        ELSE IF event.badi_month = 19 /\ event.badi_day = 19
             THEN <<2, event.gregorian_date>>
             ELSE <<1, event.gregorian_date>>

\* Python's ordering of two sort keys: k1 < k2
KeyLess(k1, k2) ==
    IF k1[1] # k2[1] THEN k1[1] < k2[1] ELSE LexLess(k1[2], k2[2])

\* insert e after every element whose key is not greater (the sort is stable)
RECURSIVE InsertByKey(_, _)
InsertByKey(sorted, e) ==
    IF sorted = <<>> THEN <<e>>
    ELSE IF KeyLess(sort_key(e), sort_key(Head(sorted)))
         THEN <<e>> \o sorted
         ELSE <<Head(sorted)>> \o InsertByKey(Tail(sorted), e)

\* events.sort(key=sort_key)
RECURSIVE SortEvents(_, _, _)
SortEvents(events, i, sorted) ==
    IF i > Len(events) THEN sorted
    ELSE SortEvents(events, i + 1, InsertByKey(sorted, events[i]))

\* the response: the events sorted, and the log
SortedResponse(acc) ==
    [status |-> "ok", events |-> SortEvents(acc.events, 1, <<>>), log |-> acc.log]

\* the four steps in turn, within the window, and the sort
DeriveEvents(c, start_date, end_date) ==
    SortedResponse(
        FastingStep(c, start_date, end_date,
          AyyamStep(c, start_date, end_date,
            TwinHolyDaysStep(c, start_date, end_date,
              FixedEventsLoop(c, start_date, end_date, 1,
                  [events |-> <<>>, log |-> <<>>])))))

\* (start_date, end_date): the two Naw-Ruz of the collaborator, corrected
YearWindow(c) == <<Corrected(naw_ruz_g_date(c, 0)), Corrected(naw_ruz_g_date(c, 1))>>

get_bahai_events_for_gregorian_year(c) ==
    IF Fails(c, G2BCall) \/ Fails(c, NRCall(0)) \/ Fails(c, NRCall(1))
    THEN [status |-> "error", events |-> <<>>, log |-> <<>>]
    ELSE DeriveEvents(c, YearWindow(c)[1], YearWindow(c)[2])

(***************************************************************************)
(* get_bahai_months                                                        *)
(***************************************************************************)
\* the month entry carrying the collaborator's sunset date as it is
create_month_entry_Uncorrected(c, month_num) ==
    [badi_month     |-> month_num,
     gregorian_date |-> IsoFormat(gregorian_date_from_badi_date(c, month_num, 1))]

\* create_month_entry(month_num, badi_year)
create_month_entry(c, month_num) ==
    [badi_month     |-> month_num,
     gregorian_date |-> IsoFormat(Corrected(gregorian_date_from_badi_date(c, month_num, 1)))]

\* the months in the order the entries are appended: 1..19, then 0
MonthOrder == [i \in 1..20 |-> IF i <= 19 THEN i ELSE 0]

\* the two appending loops; a conversion that raises is not caught
RECURSIVE MonthsLoop(_, _, _)
MonthsLoop(c, i, result) ==
    IF i > Len(MonthOrder) THEN [status |-> "ok", months |-> result]
    ELSE IF Fails(c, B2GCall(MonthOrder[i], 1))
         THEN [status |-> "error", months |-> <<>>]
         ELSE MonthsLoop(c, i + 1, Append(result, create_month_entry(c, MonthOrder[i])))

get_bahai_months(c) ==
    IF Fails(c, G2BCall)
    THEN [status |-> "error", months |-> <<>>]
    ELSE MonthsLoop(c, 1, <<>>)

(***************************************************************************)
(* The requests.  The service keeps no state between requests, so one      *)
(* request is followed from its arrival to its response: the request       *)
(* (year), what the collaborator does during it (nr, failing), the handler *)
(* that served it (op) and the response (status, events, months, twin,     *)
(* log).                                                                   *)
(***************************************************************************)
VARIABLES op, year, nr, failing, status, events, months, twin, log

vars == <<op, year, nr, failing, status, events, months, twin, log>>

FirstTableYear == TwinKeys[1]
LastTableYear == TwinKeys[Len(TwinKeys)]

Years == (FirstTableYear - YearsBefore)..(LastTableYear + YearsAfter)

\* Naw-Ruz begins at a sunset of 19 or 20 March, and a Badi year has 365 or
\* 366 days
NawRuzChoices(y) ==
    {n \in (19..20) \X (19..20) :
        DaysBetween(<<y + 1, 3, n[2]>>, <<y, 3, n[1]>>) \in {365, 366}}

\* the subsets of S of at most k elements
RECURSIVE SubsetsUpTo(_, _)
SubsetsUpTo(S, k) ==
    IF k = 0 THEN {{}}
    ELSE LET P == SubsetsUpTo(S, k - 1) IN P \cup {p \cup {x} : p \in P, x \in S}

\* the collaborator calls get_bahai_events_for_gregorian_year makes
EventCalls ==
    {G2BCall, NRCall(0), NRCall(1), B2GCall(0, 1), B2GCall(19, 1), B2GCall(19, 19)}
    \cup {B2GCall(BAHAI_EVENTS[i].month, BAHAI_EVENTS[i].day) :
            i \in {j \in DOMAIN BAHAI_EVENTS :
                     BAHAI_EVENTS[j].name \notin {"Birth of the Bab", "Birth of Baha'u'llah"}}}

\* the collaborator calls get_bahai_months makes
MonthCalls == {G2BCall} \cup {B2GCall(m, 1) : m \in 0..19}

FailSets == SubsetsUpTo(EventCalls, MaxFailures) \cup SubsetsUpTo(MonthCalls, MaxFailures)

Context == [year |-> year, nr |-> nr, failing |-> failing]

\* a request arrives: any year, any behaviour of the collaborator
Init ==
    /\ op = "none"
    /\ year \in Years
    /\ nr \in NawRuzChoices(year)
    /\ failing \in FailSets
    /\ status = "none"
    /\ events = <<>>
    /\ months = <<>>
    /\ twin = <<>>
    /\ log = <<>>

\* GET /events/{year}
GetEvents ==
    /\ op = "none"
    /\ failing \subseteq EventCalls
    /\ LET r == get_bahai_events_for_gregorian_year(Context)
       IN  /\ op' = "events"
           /\ status' = r.status
           /\ events' = r.events
           /\ log' = r.log
    /\ UNCHANGED <<year, nr, failing, months, twin>>

\* GET /bahai-months/{year}
GetMonths ==
    /\ op = "none"
    /\ failing \subseteq MonthCalls
    /\ LET r == get_bahai_months(Context)
       IN  /\ op' = "months"
           /\ status' = r.status
           /\ months' = r.months
    /\ UNCHANGED <<year, nr, failing, events, twin, log>>

\* calculate_twin_holy_days(year), on its own: it calls no collaborator
TwinHolyDays ==
    /\ op = "none"
    /\ failing = {}
    /\ LET r == calculate_twin_holy_days(year)
       IN  /\ op' = "twin"
           /\ status' = "ok"
           /\ twin' = r.dates
           /\ log' = r.log
    /\ UNCHANGED <<year, nr, failing, events, months>>

Next == GetEvents \/ GetMonths \/ TwinHolyDays

Spec == Init /\ [][Next]_vars

(***************************************************************************)
(* Vocabulary of the properties, stated on the request and the response    *)
(* without the handlers' own arithmetic.                                   *)
(***************************************************************************)
\* the civil date of Naw-Ruz of the Badi year of the request (k = 0) and of
\* the next one (k = 1): the sunset date of March plus one day
NawRuzCivil(k) == <<year + k, 3, nr[k + 1] + 1>>

\* calendar order on (year, month, day)
Before(a, b) ==
    \/ a[1] < b[1]
    \/ a[1] = b[1] /\ a[2] < b[2]
    \/ a[1] = b[1] /\ a[2] = b[2] /\ a[3] < b[3]

NotAfter(a, b) == a = b \/ Before(a, b)

DateOf(e) == FromIsoFormat(e.gregorian_date)

EventsReturned == op = "events" /\ status = "ok"

IsNawRuz(e) == e.badi_month = 1 /\ e.badi_day = 1
IsLastFast(e) == e.badi_month = 19 /\ e.badi_day = 19

Indices(P(_)) == {i \in DOMAIN events : P(events[i])}

Tier(e) == IF IsNawRuz(e) THEN 0 ELSE IF IsLastFast(e) THEN 2 ELSE 1

InTable == year \in DOMAIN TWIN_HOLY_DAYS

EstimationLogged == \E i \in DOMAIN log : log[i] = Warning("No official Twin Holy Days dates")

\* C1: when the collaborator resolves Naw-Ruz of the requested year, the
\* returned sequence holds exactly one Naw-Ruz event, and it is the first.
C1_NawRuzOnceAndFirst ==
    (EventsReturned /\ B2GCall(1, 1) \notin failing) =>
        /\ Cardinality(Indices(IsNawRuz)) = 1
        /\ IsNawRuz(events[1])
        /\ events[1].event = "Naw-Ruz"
        /\ DateOf(events[1]) = NawRuzCivil(0)

C1_Witness ==
    /\ EventsReturned
    /\ failing # {}
    /\ B2GCall(1, 1) \notin failing
    /\ Len(events) >= 10
    /\ IsNawRuz(events[1])

\* C2: the returned sequence is ordered by (tier, Gregorian date), tier 0
\* for Naw-Ruz, 2 for the last day of Fasting, 1 otherwise: the last day of
\* Fasting, when present, is the final element and the events of tier 1
\* come in ascending date order.
C2_SortedByTierThenDate ==
    EventsReturned =>
        /\ \A i, j \in DOMAIN events :
              i < j =>
                 \/ Tier(events[i]) < Tier(events[j])
                 \/ /\ Tier(events[i]) = Tier(events[j])
                    /\ NotAfter(DateOf(events[i]), DateOf(events[j]))
        /\ \A i \in DOMAIN events : IsLastFast(events[i]) => i = Len(events)

C2_Witness ==
    /\ EventsReturned
    /\ Len(events) >= 12
    /\ IsLastFast(events[Len(events)])
    /\ \E i \in DOMAIN events : events[i].badi_month = 12
    /\ \E i \in DOMAIN events : events[i].badi_month = 14

\* C3: every returned event is dated within the year window, from the civil
\* Naw-Ruz of the Badi year of the request up to, and not including, the
\* civil Naw-Ruz of the next Badi year.
C3_EventsInsideYearWindow ==
    EventsReturned =>
        \A i \in DOMAIN events :
            /\ NotAfter(NawRuzCivil(0), DateOf(events[i]))
            /\ Before(DateOf(events[i]), NawRuzCivil(1))

\* an estimated year whose Twin Holy Days fall outside the window and are
\* left out, the other events being returned
C3_Witness ==
    /\ EventsReturned
    /\ ~InTable
    /\ Len(events) >= 10
    /\ \A i \in DOMAIN events : events[i].badi_month # 12
    /\ \E i \in DOMAIN events : events[i].badi_month = 0
    /\ \E i \in DOMAIN events : IsLastFast(events[i])

NearestTableYear == IF year < FirstTableYear THEN FirstTableYear ELSE LastTableYear

MonthsServed == op = "months"

\* entry i carries the civil date of day 1 of its month: the collaborator's
\* sunset date plus one day
MonthEntryDated(i) ==
    ToOrdinal(FromIsoFormat(months[i].gregorian_date))
        = ToOrdinal(gregorian_date_from_badi_date(Context, months[i].badi_month, 1)) + 1

TwentyMonthEntries ==
    /\ Len(months) = 20
    /\ \A i \in 1..19 : months[i].badi_month = i
    /\ months[20].badi_month = 0
    /\ \A i \in 1..20 : MonthEntryDated(i)

DerivedEvents ==
    {[month |-> BAHAI_EVENTS[i].month, day |-> BAHAI_EVENTS[i].day,
      needs |-> {B2GCall(BAHAI_EVENTS[i].month, BAHAI_EVENTS[i].day)}] :
         i \in {j \in DOMAIN BAHAI_EVENTS :
                  BAHAI_EVENTS[j].name \notin {"Birth of the Bab", "Birth of Baha'u'llah"}}}
    \cup {[month |-> 0, day |-> k, needs |-> {B2GCall(0, 1), B2GCall(19, 1)}] : k \in 1..4}
    \cup {[month |-> 19, day |-> 1, needs |-> {B2GCall(19, 1)}],
          [month |-> 19, day |-> 19, needs |-> {B2GCall(19, 19)}]}

Returned(m, d) ==
    \E i \in DOMAIN events : events[i].badi_month = m /\ events[i].badi_day = d

\* C7: the request for the events fails as a whole only when the initial
\* Badi-year resolution fails; no later failure of the collaborator aborts
\* it, and every event whose own derivation succeeded is returned.
C7_OnlyYearResolutionIsFatal ==
    op = "events" =>
        /\ status = "error" <=> G2BCall \in failing
        /\ status = "ok" =>
              \A e \in DerivedEvents : (e.needs \cap failing = {}) => Returned(e.month, e.day)

\* C8: the first and the last day of Fasting fail independently: when the
\* conversion of one fails, the other is still returned if its own
\* conversion succeeds.
C8_FastingBoundariesIndependent ==
    EventsReturned =>
        /\ (B2GCall(19, 1) \in failing /\ B2GCall(19, 19) \notin failing) => Returned(19, 19)
        /\ (B2GCall(19, 19) \in failing /\ B2GCall(19, 1) \notin failing) => Returned(19, 1)

\* C9: when the conversion of the first day of some month fails, the month
\* table is still returned, with a warning, without that month's entry and
\* with the entry of every month whose conversion succeeds.
C9_FailedMonthOmitted ==
    (MonthsServed /\ G2BCall \notin failing) =>
        /\ status = "ok"
        /\ \A m \in 0..19 :
              (B2GCall(m, 1) \notin failing) <=> (\E i \in DOMAIN months : months[i].badi_month = m)
        /\ (\E m \in 0..19 : B2GCall(m, 1) \in failing) => log # <<>>

AyyamIndices == {i \in DOMAIN events : events[i].badi_month = 0}

\* C10: the intercalary period measured is length = month19Start -
\* month0Start (civil dates), 4 or 5 days, with month0Start + length =
\* month19Start; the events returned hold exactly one Ayyam-i-Ha event for
\* each day k of 1..length, dated month0Start + (k - 1) (all of them lie
\* in the year window), and none dated on or after month19Start.
C10_AyyamiHaExpansion ==
    (EventsReturned /\ B2GCall(0, 1) \notin failing /\ B2GCall(19, 1) \notin failing) =>
        LET month0Start  == ToOrdinal(gregorian_date_from_badi_date(Context, 0, 1)) + 1
            month19Start == ToOrdinal(gregorian_date_from_badi_date(Context, 19, 1)) + 1
            length       == month19Start - month0Start
        IN  /\ length \in {4, 5}
            /\ Cardinality(AyyamIndices) = length
            /\ \A k \in 1..length :
                  \E i \in AyyamIndices :
                      /\ events[i].badi_day = k
                      /\ ToOrdinal(DateOf(events[i])) = month0Start + (k - 1)
            /\ \A i \in AyyamIndices :
                  /\ ToOrdinal(DateOf(events[i])) < month19Start
                  /\ NotAfter(NawRuzCivil(0), DateOf(events[i]))
                  /\ Before(DateOf(events[i]), NawRuzCivil(1))
                  /\ events[i].event = "Ayyam-i-Ha"

\* a year with five intercalary days, 25 to 29 February 2024
C10_Witness ==
    /\ EventsReturned
    /\ year = 2023
    /\ Cardinality(AyyamIndices) = 5
    /\ \E i \in AyyamIndices : events[i].badi_day = 1 /\ DateOf(events[i]) = <<2024, 2, 25>>
    /\ \E i \in AyyamIndices : events[i].badi_day = 5 /\ DateOf(events[i]) = <<2024, 2, 29>>

\* the ordinal of the collaborator's sunset date an event is derived from:
\* its own Badi date, or for an Ayyam-i-Ha day the start of month 0 moved on
\* by the days before it
RawOrdinal(e) ==
    IF e.badi_month = 0
    THEN ToOrdinal(gregorian_date_from_badi_date(Context, 0, 1)) + (e.badi_day - 1)
    ELSE ToOrdinal(gregorian_date_from_badi_date(Context, e.badi_month, e.badi_day))

\* the Twin Holy Days come from the table or the estimator, not from the
\* collaborator
FromCollaborator(e) == e.badi_month # 12

\* C11: every date obtained from the collaborator is surfaced as the raw
\* date plus exactly one day, never zero and never two: the two bounds of
\* the year window, every fixed event, the Ayyam-i-Ha days counted from the
\* start of month 0, both Fasting boundaries, and every month start of the
\* month table.
C11_CorrectedExactlyOnce ==
    /\ EventsReturned =>
          /\ YearWindow(Context) = <<NawRuzCivil(0), NawRuzCivil(1)>>
          /\ \A i \in DOMAIN events :
                FromCollaborator(events[i]) =>
                    ToOrdinal(DateOf(events[i])) = RawOrdinal(events[i]) + 1
    /\ (MonthsServed /\ status = "ok") =>
          \A i \in DOMAIN months : MonthEntryDated(i)

\* the raw date (2024, 3, 20) of the collaborator surfaces as 2024-03-21
C11_Witness ==
    /\ EventsReturned
    /\ naw_ruz_g_date(Context, 0) = <<2024, 3, 20>>
    /\ IsNawRuz(events[1])
    /\ DateOf(events[1]) = <<2024, 3, 21>>
    /\ \E i \in DOMAIN events : events[i].badi_month = 0
    /\ \E i \in DOMAIN events : IsLastFast(events[i])

\* the days by which returned date k of the resolver lies after the date of
\* the nearest year of the table moved to the requested year
ObservedShift(k) ==
    ToOrdinal(FromIsoFormat(twin[k]))
      - ToOrdinal(ReplaceYear(FromIsoFormat(TWIN_HOLY_DAYS[NearestTableYear][k]), year))

WholeCycles == (year - NearestTableYear) % 19 = 0

AfterMarchOfNextYear(d) == Before(<<year + 1, 3, 31>>, d)

====
